---- MODULE Spec2Model ----
(***************************************************************************)
(* Model of mediapipe/model_maker/python/text/text_classifier/             *)
(* text_classifier.py: the TextClassifier.create factory, the option       *)
(* validator, and the two family builders (_AverageWordEmbeddingClassifier *)
(* and _BertClassifier).                                                   *)
(*                                                                         *)
(* One run of the state machine is one call of TextClassifier.create.      *)
(* Init draws the call's arguments; each action is one statement group of  *)
(* the call, in program order (pc is the position in the code).  External  *)
(* collaborators (preprocessor, keras model, fit loop) are opaque: the     *)
(* model records that they were called (log) and what they leave on the    *)
(* classifier instance.                                                    *)
(*                                                                         *)
(* Spec is the create call alone.  SpecOps follows a created classifier    *)
(* through any sequence of evaluate, save_model, export_model and          *)
(* export_model_with_tokenizer calls (NextOps), for a few representative   *)
(* create calls (InitOps).                                                 *)
(***************************************************************************)
EXTENDS Integers, Sequences, FiniteSets, TLC

VARIABLES
  pc,               \* position in create
  train_data,       \* argument train_data
  validation_data,  \* argument validation_data
  given,            \* the options object as the caller passed it (never written)
  options,          \* the options object (create assigns to its fields)
  clf,              \* the classifier instance under construction
  result,           \* what create returned
  err,              \* the exception create raised
  log,              \* calls made to external collaborators, in order
  fs,               \* paths written
  call,             \* the method call on the classifier in progress, or the last one
  oplog,            \* calls made to external collaborators by that method call
  written,          \* paths written by that method call
  disk              \* what is at the paths save_model and the export methods use

vars == <<pc, train_data, validation_data, given, options, clf, result, err, log, fs,
          call, oplog, written, disk>>

opvars == <<call, oplog, written, disk>>

-----------------------------------------------------------------------------
(* Bounds of the model *)

MaxClasses == 3   \* longest label-name sequence
MaxTargets == 2   \* longest desired_precisions / desired_recalls list
MaxStepsPerEpoch == 5   \* largest hparams.steps_per_epoch a caller sets
MaxEpochs == 3          \* largest hparams.epochs a caller sets

LabelAlphabet == {"neg", "pos", "neu"}
Targets == {50, 90}            \* precision / recall targets, in percent

NUM_THRESHOLDS == 1000

-----------------------------------------------------------------------------
(* Values *)

None == [type |-> "NoneType"]

BoundedSeqs(S, n) == UNION {[1..k -> S] : k \in 0..n}

IsInjective(s) == \A i, j \in 1..Len(s) : s[i] = s[j] => i = j

\* label names of a dataset: ordered, unique, at least one
LabelSeqs == {s \in BoundedSeqs(LabelAlphabet, MaxClasses) : Len(s) >= 1 /\ IsInjective(s)}

\* the texts of the two splits, as token sequences
TrainTexts == <<"good", "film", "good">>
ValidationTexts == <<"bad", "film">>

\* text_ds.Dataset: the label names and the texts
Dataset(label_names, texts) ==
  [type |-> "text_ds.Dataset", label_names |-> label_names, texts |-> texts]

\* Optional[Sequence[float]]
TargetLists == {None} \cup {[type |-> "list", items |-> s] : s \in BoundedSeqs(Targets, MaxTargets)}

\* Python truthiness of an Optional[Sequence]: None and the empty list are falsy
Truthy(v) == v # None /\ Len(v.items) > 0

Items(v) == IF v = None THEN <<>> ELSE v.items

SupportedModels ==
  {"AVERAGE_WORD_EMBEDDING_CLASSIFIER", "MOBILEBERT_CLASSIFIER", "EXBERT_CLASSIFIER",
   "UNKNOWN_MODEL"}

BertOptimizer == {"ADAMW", "LAMB"}
OptimizerSelectors == BertOptimizer \cup {"SGD"}

\* mo.AverageWordEmbeddingModelOptions / mo.BertModelOptions; origin is the
\* identity of the object (who constructed it)
ModelOptions(type, origin) == [type |-> type, origin |-> origin]

\* hparams.export_dir, as path components
ExportDir == <<"export_dir">>

AverageWordEmbeddingHParams(origin) ==
  [type |-> "AverageWordEmbeddingHParams", origin |-> origin, export_dir |-> ExportDir]

SupportedBertTokenizers == {"FULL_TOKENIZER", "FAST_BERT_TOKENIZER"}

\* an Optional[int] that is set
SomeInt(n) == [type |-> "int", value |-> n]

\* steps_per_epoch is unset, and epochs and batch_size have the values of the
\* family's specification, unless the caller sets them
BertHParams(origin, optimizer, desired_precisions, desired_recalls, tokenizer) ==
  [type |-> "BertHParams", origin |-> origin, optimizer |-> optimizer,
   desired_precisions |-> desired_precisions, desired_recalls |-> desired_recalls,
   tokenizer |-> tokenizer, export_dir |-> ExportDir,
   steps_per_epoch |-> None, epochs |-> 3, batch_size |-> 48]

\* options.supported_model.value(): the specification of the selected family
SupportedModelValue(supported_model) ==
  CASE supported_model = "AVERAGE_WORD_EMBEDDING_CLASSIFIER" ->
         [type |-> "AverageWordEmbeddingClassifierSpec",
          name |-> "AverageWordEmbedding",
          model_options |-> ModelOptions("AverageWordEmbeddingModelOptions", "spec"),
          hparams |-> AverageWordEmbeddingHParams("spec")]
    [] supported_model \in {"MOBILEBERT_CLASSIFIER", "EXBERT_CLASSIFIER"} ->
         [type |-> "BertClassifierSpec",
          name |-> IF supported_model = "MOBILEBERT_CLASSIFIER" THEN "MobileBert" ELSE "ExBert",
          model_options |-> ModelOptions("BertModelOptions", "spec"),
          hparams |-> BertHParams("spec", "ADAMW", [type |-> "list", items |-> <<>>],
                                  [type |-> "list", items |-> <<>>], "FULL_TOKENIZER")]
    [] OTHER ->
         [type |-> "OtherSpec",
          name |-> "Other",
          model_options |-> ModelOptions("OtherModelOptions", "spec"),
          hparams |-> [type |-> "OtherHParams", origin |-> "spec"]]

\* the model options a caller can put in TextClassifierOptions
CallerModelOptions ==
  {None, ModelOptions("AverageWordEmbeddingModelOptions", "caller"),
   ModelOptions("BertModelOptions", "caller")}

\* the hyperparameters a caller can put in TextClassifierOptions for a selector
CallerHParams(supported_model) ==
  {None} \cup
  IF SupportedModelValue(supported_model).type = "BertClassifierSpec"
  THEN {BertHParams("caller", o, p, r, t) :
          o \in OptimizerSelectors, p \in TargetLists, r \in TargetLists,
          t \in SupportedBertTokenizers}
  ELSE {AverageWordEmbeddingHParams("caller")}

TextClassifierOptions ==
  UNION {{[supported_model |-> s, model_options |-> m, hparams |-> h] :
            m \in CallerModelOptions, h \in CallerHParams(s)} : s \in SupportedModels}

NoError == [type |-> "None", msg |-> "", arg |-> ""]
ValueError(msg, arg) == [type |-> "ValueError", msg |-> msg, arg |-> arg]

NoClassifier == [cls |-> "None"]

\* no method has been called on the classifier yet
NoCall == [op |-> "None", state |-> "none"]

\* nothing at any path
EmptyDisk == [p \in {} |-> "absent"]

-----------------------------------------------------------------------------
(* _validate *)

\* variant: the BertModelOptions check is missing
_validate_no_bert_check(opts) ==
  IF opts.model_options = None THEN NoError
  ELSE IF opts.model_options.type = "AverageWordEmbeddingModelOptions"
          /\ opts.supported_model # "AVERAGE_WORD_EMBEDDING_CLASSIFIER"
       THEN ValueError("Expected AVERAGE_WORD_EMBEDDING_CLASSIFIER, got", opts.supported_model)
  ELSE NoError

\* variant: the AverageWordEmbeddingModelOptions check is missing
_validate_no_embedding_check(opts) ==
  IF opts.model_options = None THEN NoError
  ELSE IF opts.model_options.type = "BertModelOptions"
          /\ SupportedModelValue(opts.supported_model).type # "BertClassifierSpec"
       THEN ValueError("Expected a Bert Classifier, got", opts.supported_model)
  ELSE NoError


_validate(opts) ==
  IF opts.model_options = None THEN NoError
  ELSE IF opts.model_options.type = "AverageWordEmbeddingModelOptions"
          /\ opts.supported_model # "AVERAGE_WORD_EMBEDDING_CLASSIFIER"
       THEN ValueError("Expected AVERAGE_WORD_EMBEDDING_CLASSIFIER, got", opts.supported_model)
  ELSE IF opts.model_options.type = "BertModelOptions"
          /\ SupportedModelValue(opts.supported_model).type # "BertClassifierSpec"
       THEN ValueError("Expected a Bert Classifier, got", opts.supported_model)
  ELSE NoError

-----------------------------------------------------------------------------
(* TextClassifier.create *)

\* variant: label names compared as sets (order ignored)
LabelNamesDiffer_as_sets(a, b) ==
  {a[i] : i \in 1..Len(a)} # {b[i] : i \in 1..Len(b)}

\* train_data.label_names != validation_data.label_names (list comparison)
LabelNamesDiffer(a, b) == a # b

Raise(e) ==
  /\ pc' = "raised"
  /\ err' = e

create_check_label_names ==
  /\ pc = "create"
  /\ IF LabelNamesDiffer(train_data.label_names, validation_data.label_names)
     THEN Raise(ValueError("Training data label names not equal to validation data label names", ""))
     ELSE pc' = "validate" /\ UNCHANGED err
  /\ UNCHANGED <<train_data, validation_data, given, options, clf, result, log, fs, call, oplog, written, disk>>

create_validate ==
  /\ pc = "validate"
  /\ IF _validate(options) # NoError
     THEN Raise(_validate(options))
     ELSE pc' = "fill_defaults" /\ UNCHANGED err
  /\ UNCHANGED <<train_data, validation_data, given, options, clf, result, log, fs, call, oplog, written, disk>>

\* variant: hparams always taken from the family specification
FillDefaults_overwrite_hparams(opts) ==
  [opts EXCEPT
     !.model_options = IF opts.model_options = None
                       THEN SupportedModelValue(opts.supported_model).model_options
                       ELSE @,
     !.hparams = SupportedModelValue(opts.supported_model).hparams]

\* lines 116-120
FillDefaults(opts) ==
  [opts EXCEPT
     !.model_options = IF opts.model_options = None
                       THEN SupportedModelValue(opts.supported_model).model_options
                       ELSE @,
     !.hparams = IF opts.hparams = None
                 THEN SupportedModelValue(opts.supported_model).hparams
                 ELSE @]

create_fill_defaults ==
  /\ pc = "fill_defaults"
  /\ options' = FillDefaults(options)
  /\ pc' = "dispatch"
  /\ UNCHANGED <<train_data, validation_data, given, clf, result, err, log, fs, call, oplog, written, disk>>

\* variant: the second branch is a plain else
Dispatch_else_embedding(supported_model) ==
  IF SupportedModelValue(supported_model).type = "BertClassifierSpec"
  THEN "create_bert_classifier"
  ELSE "create_average_word_embedding_classifier"

\* lines 122-133: which builder the selector dispatches to
Dispatch(supported_model) ==
  IF SupportedModelValue(supported_model).type = "BertClassifierSpec"
  THEN "create_bert_classifier"
  ELSE IF SupportedModelValue(supported_model).type = "AverageWordEmbeddingClassifierSpec"
  THEN "create_average_word_embedding_classifier"
  ELSE "unknown"

create_dispatch ==
  /\ pc = "dispatch"
  /\ IF Dispatch(options.supported_model) = "unknown"
     THEN Raise(ValueError("Unknown model", options.supported_model))
     ELSE pc' = Dispatch(options.supported_model) /\ UNCHANGED err
  /\ UNCHANGED <<train_data, validation_data, given, options, clf, result, log, fs, call, oplog, written, disk>>

-----------------------------------------------------------------------------
(* Vocabularies of the two preprocessors *)

Count(texts, tok) == Cardinality({i \in 1..Len(texts) : texts[i] = tok})

FirstIndex(texts, tok) == CHOOSE i \in 1..Len(texts) :
                            texts[i] = tok /\ \A j \in 1..(i - 1) : texts[j] # tok

\* the tokens of texts, most frequent first, ties in order of first occurrence
RECURSIVE MostCommon(_, _)
MostCommon(texts, toks) ==
  IF toks = {} THEN <<>>
  ELSE LET best == CHOOSE t \in toks :
                     \A u \in toks :
                        \/ Count(texts, t) > Count(texts, u)
                        \/ /\ Count(texts, t) = Count(texts, u)
                           /\ FirstIndex(texts, t) <= FirstIndex(texts, u)
       IN <<best>> \o MostCommon(texts, toks \ {best})

\* the fitted vocabulary: token at position i has id i - 1; the reserved
\* tokens come first
BuildVocab(texts) ==
  <<"<PAD>", "<START>", "<UNKNOWN>">> \o MostCommon(texts, {texts[i] : i \in 1..Len(texts)})

\* the vocabulary file bundled with a pretrained encoder
BertVocab(model_name) ==
  IF model_name = "MobileBert"
  THEN <<"[PAD]", "[UNK]", "[CLS]", "[SEP]", "good", "film">>
  ELSE <<"[PAD]", "[UNK]", "[CLS]", "[SEP]", "bad">>

-----------------------------------------------------------------------------
(* TextClassifier.__init__ and the fit loop of the base classifier *)

\* variant: the label names are kept in reverse order
TextClassifier__init___reversed(cls, model_spec, label_names) ==
  [cls |-> cls,
   _model_spec |-> model_spec,
   _label_names |-> [i \in 1..Len(label_names) |-> label_names[Len(label_names) + 1 - i]],
   _num_classes |-> Len(label_names),
   _text_preprocessor |-> None,
   _model |-> None,
   _optimizer |-> None]

\* TextClassifier.__init__: the base class keeps label_names and the class
\* count; no preprocessor, model or optimizer yet
TextClassifier__init__(cls, model_spec, label_names) ==
  [cls |-> cls,
   _model_spec |-> model_spec,
   _label_names |-> label_names,
   _num_classes |-> Len(label_names),
   _text_preprocessor |-> None,
   _model |-> None,
   _optimizer |-> None]

\* self._train_model(...): the fit loop trains self._model in place
TrainedModel(model) == [model EXCEPT !.trained = TRUE]

\* what the fit loop's callbacks leave under hparams.export_dir
FitWrites == {<<"export_dir", "checkpoints">>, <<"export_dir", "summaries">>}

-----------------------------------------------------------------------------
(* _BertClassifier *)

Metric(cls, name) == [cls |-> cls, name |-> name]

ThresholdMetric(cls, value, name, num_thresholds) ==
  [cls |-> cls, value |-> value, name |-> name, num_thresholds |-> num_thresholds]

\* variant: the class-count check only fires above two classes
_create_metrics_only_above_two(num_classes, hparams) ==
  LET metric_functions ==
        << Metric("SparseCategoricalAccuracy", "accuracy"),
           Metric("SparsePrecision", "precision"),
           Metric("SparseRecall", "recall") >>
      for_precisions ==
        IF Truthy(hparams.desired_precisions)
        THEN [i \in 1..Len(hparams.desired_precisions.items) |->
                ThresholdMetric("BinarySparseRecallAtPrecision",
                                hparams.desired_precisions.items[i],
                                "recall_at_precision_", NUM_THRESHOLDS)]
        ELSE <<>>
      for_recalls ==
        IF Truthy(hparams.desired_recalls)
        THEN [i \in 1..Len(hparams.desired_recalls.items) |->
                ThresholdMetric("BinarySparseRecallAtPrecision",
                                hparams.desired_recalls.items[i],
                                "precision_at_recall_", NUM_THRESHOLDS)]
        ELSE <<>>
  IN IF num_classes = 2
     THEN [err |-> NoError,
           metric_functions |-> metric_functions \o for_precisions \o for_recalls]
     ELSE IF num_classes > 2
             /\ (Truthy(hparams.desired_precisions) \/ Truthy(hparams.desired_recalls))
     THEN [err |-> ValueError("desired_recalls and desired_precisions parameters are binary metrics and not supported for num_classes > 2. Found num_classes:",
                              ToString(num_classes)),
           metric_functions |-> <<>>]
     ELSE [err |-> NoError, metric_functions |-> metric_functions]

\* variant: the class-count check ignores desired_recalls
_create_metrics_only_precisions(num_classes, hparams) ==
  LET metric_functions ==
        << Metric("SparseCategoricalAccuracy", "accuracy"),
           Metric("SparsePrecision", "precision"),
           Metric("SparseRecall", "recall") >>
      for_precisions ==
        IF Truthy(hparams.desired_precisions)
        THEN [i \in 1..Len(hparams.desired_precisions.items) |->
                ThresholdMetric("BinarySparseRecallAtPrecision",
                                hparams.desired_precisions.items[i],
                                "recall_at_precision_", NUM_THRESHOLDS)]
        ELSE <<>>
      for_recalls ==
        IF Truthy(hparams.desired_recalls)
        THEN [i \in 1..Len(hparams.desired_recalls.items) |->
                ThresholdMetric("BinarySparseRecallAtPrecision",
                                hparams.desired_recalls.items[i],
                                "precision_at_recall_", NUM_THRESHOLDS)]
        ELSE <<>>
  IN IF num_classes = 2
     THEN [err |-> NoError,
           metric_functions |-> metric_functions \o for_precisions \o for_recalls]
     ELSE IF Truthy(hparams.desired_precisions)
     THEN [err |-> ValueError("desired_recalls and desired_precisions parameters are binary metrics and not supported for num_classes > 2. Found num_classes:",
                              ToString(num_classes)),
           metric_functions |-> <<>>]
     ELSE [err |-> NoError, metric_functions |-> metric_functions]

\* _BertClassifier._create_metrics: [err, metric_functions]; metric_functions
\* is what the method returns when err = NoError
_create_metrics(num_classes, hparams) ==
  LET metric_functions ==
        << Metric("SparseCategoricalAccuracy", "accuracy"),
           Metric("SparsePrecision", "precision"),
           Metric("SparseRecall", "recall") >>
      for_precisions ==
        IF Truthy(hparams.desired_precisions)
        THEN [i \in 1..Len(hparams.desired_precisions.items) |->
                ThresholdMetric("BinarySparseRecallAtPrecision",
                                hparams.desired_precisions.items[i],
                                "recall_at_precision_", NUM_THRESHOLDS)]
        ELSE <<>>
      for_recalls ==
        IF Truthy(hparams.desired_recalls)
        THEN [i \in 1..Len(hparams.desired_recalls.items) |->
                ThresholdMetric("BinarySparseRecallAtPrecision",
                                hparams.desired_recalls.items[i],
                                "precision_at_recall_", NUM_THRESHOLDS)]
        ELSE <<>>
  IN IF num_classes = 2
     THEN [err |-> NoError,
           metric_functions |-> metric_functions \o for_precisions \o for_recalls]
     ELSE IF Truthy(hparams.desired_precisions) \/ Truthy(hparams.desired_recalls)
     THEN [err |-> ValueError("desired_recalls and desired_precisions parameters are binary metrics and not supported for num_classes > 2. Found num_classes:",
                              ToString(num_classes)),
           metric_functions |-> <<>>]
     ELSE [err |-> NoError, metric_functions |-> metric_functions]

\* _BertClassifier.__init__ up to the metric construction
_BertClassifier__init__(model_spec, model_options, hparams, label_names) ==
  [TextClassifier__init__("_BertClassifier", model_spec, label_names) EXCEPT
     !._text_preprocessor = None]
    @@ [_hparams |-> hparams,
        _model_options |-> model_options,
        _loss_function |-> "SparseFocalLoss",
        _metric_functions |-> _create_metrics(Len(label_names), hparams).metric_functions]

\* variant: the builder returns the instance as soon as it is constructed
create_bert_classifier_untrained ==
  /\ pc = "create_bert_classifier"
  /\ log' = Append(log, "_BertClassifier.__init__")
  /\ IF _create_metrics(Len(train_data.label_names), options.hparams).err # NoError
     THEN /\ Raise(_create_metrics(Len(train_data.label_names), options.hparams).err)
          /\ UNCHANGED clf
     ELSE /\ clf' = _BertClassifier__init__(SupportedModelValue(options.supported_model),
                                            options.model_options, options.hparams,
                                            train_data.label_names)
          /\ pc' = "return"
          /\ UNCHANGED err
  /\ UNCHANGED <<train_data, validation_data, given, options, result, fs, call, oplog, written, disk>>

\* create_bert_classifier, lines 402-406: the constructor call
create_bert_classifier ==
  /\ pc = "create_bert_classifier"
  /\ log' = Append(log, "_BertClassifier.__init__")
  /\ IF _create_metrics(Len(train_data.label_names), options.hparams).err # NoError
     THEN /\ Raise(_create_metrics(Len(train_data.label_names), options.hparams).err)
          /\ UNCHANGED clf
     ELSE /\ clf' = _BertClassifier__init__(SupportedModelValue(options.supported_model),
                                            options.model_options, options.hparams,
                                            train_data.label_names)
          /\ pc' = "bert_load_and_run_preprocessor"
          /\ UNCHANGED err
  /\ UNCHANGED <<train_data, validation_data, given, options, result, fs, call, oplog, written, disk>>

\* preprocessor.BertClassifierPreprocessor(...): the vocabulary file is the
\* one bundled with the pretrained encoder, the tokenizer the selected variant
BertClassifierPreprocessor(model_name, tokenizer) ==
  [type |-> "BertClassifierPreprocessor",
   model_name |-> model_name,
   tokenizer |-> [type |-> tokenizer, owner |-> "preprocessor"],
   vocab_file |-> BertVocab(model_name)]

\* _BertClassifier._load_and_run_preprocessor
bert_load_and_run_preprocessor ==
  /\ pc = "bert_load_and_run_preprocessor"
  /\ clf' = [clf EXCEPT !._text_preprocessor =
               BertClassifierPreprocessor(clf._model_spec.name, clf._hparams.tokenizer)]
  /\ log' = log \o <<"BertClassifierPreprocessor", "preprocess(train_data)",
                     "preprocess(validation_data)">>
  /\ pc' = "bert_create_model"
  /\ UNCHANGED <<train_data, validation_data, given, options, result, err, fs, call, oplog, written, disk>>

\* _BertClassifier._create_model
bert_create_model ==
  /\ pc = "bert_create_model"
  /\ clf' = [clf EXCEPT !._model =
               [type |-> "keras.Model", outputs |-> clf._num_classes, trained |-> FALSE]]
  /\ log' = Append(log, "_create_model")
  /\ pc' = "bert_create_optimizer"
  /\ UNCHANGED <<train_data, validation_data, given, options, result, err, fs, call, oplog, written, disk>>

\* model_util.get_steps_per_epoch: the caller's value when it is set, the
\* number of whole batches in the training data otherwise
get_steps_per_epoch(steps_per_epoch, batch_size, data) ==
  IF steps_per_epoch # None THEN steps_per_epoch
  ELSE SomeInt(Len(data.texts) \div batch_size)

\* lines 567-570: hparams after the assignment to hparams.steps_per_epoch
WithStepsPerEpoch(hparams, data) ==
  [hparams EXCEPT !.steps_per_epoch =
     get_steps_per_epoch(hparams.steps_per_epoch, hparams.batch_size, data)]

\* line 571
total_steps(hparams) == hparams.steps_per_epoch.value * hparams.epochs

\* variant: a tenth of the steps, rounded up
warmup_steps_rounded_up(total) == (total + 9) \div 10

\* line 572, int(total_steps * 0.1): the double 0.1 is 1/10 * (1 + 2^-54), so
\* the product rounds to a double whose integer part is that of total / 10
\* for every total below 2^53
warmup_steps(total) == total \div 10

\* lines 573-586: the linear decay, wrapped in a warm-up when warmup_steps
\* is not zero
lr_schedule(hparams) ==
  LET decay == [type |-> "PolynomialDecay", initial_learning_rate |-> "learning_rate",
                decay_steps |-> total_steps(hparams),
                end_learning_rate |-> "end_learning_rate", power |-> 1]
  IN IF warmup_steps(total_steps(hparams)) # 0
     THEN [type |-> "WarmUp", initial_learning_rate |-> "learning_rate",
           decay_schedule_fn |-> decay,
           warmup_steps |-> warmup_steps(total_steps(hparams))]
     ELSE decay

\* variant: any selector other than LAMB gets AdamW
_create_optimizer_default_adamw(hparams) ==
  IF hparams.optimizer = "LAMB" THEN [err |-> NoError, optimizer |-> "LAMB"]
  ELSE [err |-> NoError, optimizer |-> "AdamW"]

\* _BertClassifier._create_optimizer, lines 587-609: [err, optimizer]
_create_optimizer(hparams) ==
  IF hparams.optimizer = "ADAMW" THEN [err |-> NoError, optimizer |-> "AdamW"]
  ELSE IF hparams.optimizer = "LAMB" THEN [err |-> NoError, optimizer |-> "LAMB"]
  ELSE [err |-> ValueError("BertHParams.optimizer must be set to ADAM or LAMB. Got",
                           hparams.optimizer),
        optimizer |-> "None"]

\* the call of line 422.  self._hparams is the object options.hparams (lines
\* 405, 380), so the assignment of line 567 shows in the caller's options
\* too; it comes before the selector is looked at, and stays when the
\* selector is rejected
bert_create_optimizer ==
  /\ pc = "bert_create_optimizer"
  /\ log' = Append(log, "_create_optimizer")
  /\ LET hparams == WithStepsPerEpoch(clf._hparams, train_data)
     IN /\ options' = [options EXCEPT !.hparams = hparams]
        /\ IF _create_optimizer(hparams).err # NoError
           THEN /\ Raise(_create_optimizer(hparams).err)
                /\ clf' = [clf EXCEPT !._hparams = hparams]
           ELSE /\ clf' = [clf EXCEPT
                             !._hparams = hparams,
                             !._optimizer = [type |-> _create_optimizer(hparams).optimizer,
                                             lr_schedule |-> lr_schedule(hparams)]]
                /\ pc' = "bert_train_model"
                /\ UNCHANGED err
  /\ UNCHANGED <<train_data, validation_data, given, result, fs, call, oplog, written, disk>>

\* _create_and_train_model, line 423
bert_train_model ==
  /\ pc = "bert_train_model"
  /\ clf' = [clf EXCEPT !._model = TrainedModel(@)]
  /\ log' = Append(log, "_train_model")
  /\ fs' = fs \cup FitWrites
  /\ pc' = "return"
  /\ UNCHANGED <<train_data, validation_data, given, options, result, err, call, oplog, written, disk>>

-----------------------------------------------------------------------------
(* _AverageWordEmbeddingClassifier *)

_AverageWordEmbeddingClassifier__init__(model_spec, model_options, hparams, label_names) ==
  TextClassifier__init__("_AverageWordEmbeddingClassifier", model_spec, label_names)
    @@ [_hparams |-> hparams,
        _model_options |-> model_options,
        _loss_function |-> "sparse_categorical_crossentropy",
        _metric_functions |->
          << Metric("str", "accuracy"),
             Metric("SparsePrecision", "precision"),
             Metric("SparseRecall", "recall") >>]

\* create_average_word_embedding_classifier, lines 278-282: the constructor call
create_average_word_embedding_classifier ==
  /\ pc = "create_average_word_embedding_classifier"
  /\ clf' = _AverageWordEmbeddingClassifier__init__(
               SupportedModelValue(options.supported_model),
               options.model_options, options.hparams, train_data.label_names)
  /\ log' = Append(log, "_AverageWordEmbeddingClassifier.__init__")
  /\ pc' = "awe_load_and_run_preprocessor"
  /\ UNCHANGED <<train_data, validation_data, given, options, result, err, fs, call, oplog, written, disk>>

\* preprocessor.AverageWordEmbeddingClassifierPreprocessor(texts=...): the
\* vocabulary is fitted on the texts it is constructed with
AverageWordEmbeddingClassifierPreprocessor(model_name, texts) ==
  [type |-> "AverageWordEmbeddingClassifierPreprocessor",
   model_name |-> model_name,
   texts |-> texts,
   vocab |-> BuildVocab(texts)]

\* variant: one preprocessor per split, each fitted on its own texts; the one
\* of the training split is kept
awe_load_and_run_preprocessor_per_split ==
  /\ pc = "awe_load_and_run_preprocessor"
  /\ clf' = [clf EXCEPT !._text_preprocessor =
               AverageWordEmbeddingClassifierPreprocessor(
                 clf._model_spec.name, train_data.texts)]
  /\ log' = log \o <<"AverageWordEmbeddingClassifierPreprocessor",
                     "preprocess(train_data)",
                     "AverageWordEmbeddingClassifierPreprocessor",
                     "preprocess(validation_data)">>
  /\ pc' = "awe_create_model"
  /\ UNCHANGED <<train_data, validation_data, given, options, result, err, fs, call, oplog, written, disk>>

\* _AverageWordEmbeddingClassifier._load_and_run_preprocessor
awe_load_and_run_preprocessor ==
  /\ pc = "awe_load_and_run_preprocessor"
  /\ clf' = [clf EXCEPT !._text_preprocessor =
               AverageWordEmbeddingClassifierPreprocessor(
                 clf._model_spec.name, train_data.texts \o validation_data.texts)]
  /\ log' = log \o <<"AverageWordEmbeddingClassifierPreprocessor",
                     "preprocess(train_data)", "preprocess(validation_data)">>
  /\ pc' = "awe_create_model"
  /\ UNCHANGED <<train_data, validation_data, given, options, result, err, fs, call, oplog, written, disk>>

\* _create_and_train_model, lines 297-298: _create_model, then the fixed optimizer
awe_create_model ==
  /\ pc = "awe_create_model"
  /\ clf' = [clf EXCEPT
               !._model = [type |-> "keras.Sequential", outputs |-> clf._num_classes,
                           trained |-> FALSE],
               !._optimizer = "rmsprop"]
  /\ log' = Append(log, "_create_model")
  /\ pc' = "awe_train_model"
  /\ UNCHANGED <<train_data, validation_data, given, options, result, err, fs, call, oplog, written, disk>>

\* _create_and_train_model, line 299
awe_train_model ==
  /\ pc = "awe_train_model"
  /\ clf' = [clf EXCEPT !._model = TrainedModel(@)]
  /\ log' = Append(log, "_train_model")
  /\ fs' = fs \cup FitWrites
  /\ pc' = "return"
  /\ UNCHANGED <<train_data, validation_data, given, options, result, err, call, oplog, written, disk>>

\* the builder returns the instance and create returns it (lines 285, 408, 135)
create_return ==
  /\ pc = "return"
  /\ result' = clf
  /\ pc' = "returned"
  /\ UNCHANGED <<train_data, validation_data, given, options, clf, err, log, fs, call, oplog, written, disk>>

-----------------------------------------------------------------------------
(* Paths and the file system, as the save and export methods use them *)

\* a path is its sequence of components; an absolute path starts with "/"
IsAbsolute(path) == Len(path) > 0 /\ path[1] = "/"

\* variant: the second path is always appended to the first
os_path_join_appending(a, b) == a \o b

\* os.path.join(a, b): an absolute b discards a
os_path_join(a, b) == IF IsAbsolute(b) THEN b ELSE a \o b

IsUnder(path, root) ==
  Len(path) > Len(root) /\ SubSeq(path, 1, Len(root)) = root

Exists(d, path) == path \in DOMAIN d

IsDirectory(d, path) == Exists(d, path) /\ d[path].kind \in {"dir", "SavedModel"}

IsFile(d, path) == Exists(d, path) /\ ~IsDirectory(d, path)

Put(d, path, content) ==
  [q \in DOMAIN d \cup {path} |-> IF q = path THEN content ELSE d[q]]

\* tf.io.gfile.makedirs(path): creates the directory when it is absent, leaves
\* an existing directory alone, and cannot replace a file
makedirs_ok(d, path) == ~IsFile(d, path)
makedirs(d, path) == IF Exists(d, path) THEN d ELSE Put(d, path, [kind |-> "dir"])

\* the names a caller passes as model_name to save_model: the default, and an
\* absolute path
SaveModelNames == {<<"saved_model">>, <<"/", "tmp", "model">>}

\* the names a caller passes as model_name to export_model: the default, and
\* the names export_model itself uses for its other two outputs
ExportModelNames == {<<"model.tflite">>, <<"metadata.json">>, <<"saved_model">>}

\* quantization_config of export_model
QuantizationConfigs == {None, [type |-> "QuantizationConfig", scheme |-> "dynamic"]}

\* os.path.join(tempfile.mkdtemp(), "vocab.txt")
VocabFilepath == <<"/", "tmp", "tmpdir", "vocab.txt">>

\* what a file write that raised half-way can leave behind
PartialFile == [kind |-> "file", partial |-> TRUE]

\* an exception raised inside an external collaborator
CollaboratorError(fn) == [type |-> "CollaboratorError", msg |-> fn, arg |-> ""]

-----------------------------------------------------------------------------
(* Method calls on a created classifier.  self is result; pc = "returned"  *)
(* is the classifier at rest between calls.                                *)

Entry(fn, arg, ok) == [fn |-> fn, arg |-> arg, ok |-> ok]

\* variant: a failing step is logged and the method carries on
Propagate_swallowed(ok, fn, next, c) ==
  /\ pc' = next
  /\ call' = c

\* variant: the collaborator's exception is wrapped in another one
Propagate_wrapped(ok, fn, next, c) ==
  IF ok
  THEN pc' = next /\ call' = c
  ELSE /\ pc' = "returned"
       /\ call' = [call EXCEPT !.state = "raised",
                                !.err = [type |-> "ExportError", msg |-> fn, arg |-> ""]]

\* a collaborator call inside a method: when it raises, the exception leaves
\* the method as it is (there is no try/except in the file); otherwise the
\* method goes on to its next statement
Propagate(ok, fn, next, c) ==
  IF ok
  THEN pc' = next /\ call' = c
  ELSE /\ pc' = "returned"
       /\ call' = [call EXCEPT !.state = "raised", !.err = CollaboratorError(fn)]

-----------------------------------------------------------------------------
(* TextClassifier.evaluate *)

EvaluateTargets == {None, [type |-> "list", items |-> <<90>>]}

\* the data arguments: a text-classifier dataset, or a core dataset
EvaluateData(self) ==
  {Dataset(self._label_names, ValidationTexts), [type |-> "ds.Dataset"]}

\* variant: no check of the dataset type
evaluate_raises_nothing(self, data, desired_precisions, desired_recalls) == NoError

\* variant: the targets are checked against the class count
evaluate_raises_checking_targets(self, data, desired_precisions, desired_recalls) ==
  IF data.type # "text_ds.Dataset"
  THEN ValueError("Need a TextClassifier Dataset.", "")
  ELSE IF self._num_classes # 2 /\ (Truthy(desired_precisions) \/ Truthy(desired_recalls))
  THEN ValueError("desired_recalls and desired_precisions parameters are binary metrics and not supported for num_classes > 2. Found num_classes:",
                  ToString(self._num_classes))
  ELSE NoError

\* lines 165-166: what evaluate raises before doing anything
evaluate_raises(self, data, desired_precisions, desired_recalls) ==
  IF data.type # "text_ds.Dataset"
  THEN ValueError("Need a TextClassifier Dataset.", "")
  ELSE NoError

\* variant: a preprocessor fitted on the evaluation data
evaluate_preprocessor_refitted(self, data) ==
  IF self.cls = "_BertClassifier"
  THEN BertClassifierPreprocessor(self._model_spec.name, "FAST_BERT_TOKENIZER")
  ELSE AverageWordEmbeddingClassifierPreprocessor(self._model_spec.name, data.texts)

\* line 168: the preprocessor that preprocesses the evaluation data
evaluate_preprocessor(self, data) == self._text_preprocessor

evaluate ==
  /\ pc = "returned"
  /\ \E data \in EvaluateData(result),
        desired_precisions \in EvaluateTargets, desired_recalls \in EvaluateTargets :
       LET c == [op |-> "evaluate", data |-> data, batch_size |-> 32,
                 desired_precisions |-> desired_precisions,
                 desired_recalls |-> desired_recalls,
                 state |-> "running", err |-> NoError, value |-> None]
           e == evaluate_raises(result, data, desired_precisions, desired_recalls)
       IN IF e # NoError
          THEN /\ call' = [c EXCEPT !.state = "raised", !.err = e]
               /\ oplog' = <<>>
          ELSE /\ call' = [c EXCEPT !.state = "returned",
                                    !.value = [type |-> "evaluation", model |-> result._model,
                                               metrics |-> result._metric_functions]]
               /\ oplog' = << Entry("preprocess", evaluate_preprocessor(result, data), TRUE),
                              Entry("gen_tf_dataset", [batch_size |-> 32, is_training |-> FALSE], TRUE),
                              Entry("_model.evaluate", result._model, TRUE) >>
  /\ written' = {}
  /\ UNCHANGED <<pc, train_data, validation_data, given, options, clf, result, err, log, fs, disk>>

-----------------------------------------------------------------------------
(* TextClassifier.save_model *)

\* what self._model.save(..., include_optimizer=False, save_format="tf") leaves
SavedModel(self) ==
  [kind |-> "SavedModel", model |-> self._model, include_optimizer |-> FALSE]

\* self._model.save(path, ...) can succeed: path is not a file
model_save_ok(d, path) == ~IsFile(d, path)

\* save_model, lines 185-191, on disk d: [ok, fn, disk, written, oplog]; fails
\* stands for the collaborators raising on their own account
save_model_body(self, d, model_name, fails) ==
  LET saved_model_file == os_path_join(self._hparams.export_dir, model_name)
      d1 == makedirs(d, self._hparams.export_dir)
      made == Entry("makedirs", self._hparams.export_dir, TRUE)
  IN IF ~makedirs_ok(d, self._hparams.export_dir) \/ fails = "makedirs"
     THEN [ok |-> FALSE, fn |-> "makedirs", disk |-> d, written |-> {},
           oplog |-> << Entry("makedirs", self._hparams.export_dir, FALSE) >>]
     ELSE IF ~model_save_ok(d1, saved_model_file) \/ fails = "_model.save"
     THEN [ok |-> FALSE, fn |-> "_model.save", disk |-> d1,
           written |-> {self._hparams.export_dir},
           oplog |-> << made, Entry("_model.save", saved_model_file, FALSE) >>]
     ELSE [ok |-> TRUE, fn |-> "",
           disk |-> Put(d1, saved_model_file, SavedModel(self)),
           written |-> {self._hparams.export_dir, saved_model_file},
           oplog |-> << made, Entry("_model.save", saved_model_file, TRUE) >>]

save_model ==
  /\ pc = "returned"
  /\ \E model_name \in SaveModelNames, fails \in {"", "makedirs", "_model.save"} :
       LET r == save_model_body(result, disk, model_name, fails)
           c == [op |-> "save_model", model_name |-> model_name,
                 state |-> "running", err |-> NoError, value |-> None]
       IN /\ disk' = r.disk
          /\ written' = r.written
          /\ oplog' = r.oplog
          /\ fs' = fs \cup r.written
          /\ call' = IF r.ok THEN [c EXCEPT !.state = "returned"]
                             ELSE [c EXCEPT !.state = "raised", !.err = CollaboratorError(r.fn)]
  /\ UNCHANGED <<pc, train_data, validation_data, given, options, clf, result, err, log>>

-----------------------------------------------------------------------------
(* TextClassifier.export_model *)

\* lines 209-210
tflite_file == os_path_join(result._hparams.export_dir, call.model_name)
metadata_file == os_path_join(result._hparams.export_dir, <<"metadata.json">>)
\* line 213
saved_model_file == os_path_join(result._hparams.export_dir, <<"saved_model">>)

\* a file can be opened for writing at path: the path is not a directory
write_ok(d, path) == ~IsDirectory(d, path)

\* line 208
export_model ==
  /\ pc = "returned"
  /\ \E model_name \in ExportModelNames, quantization_config \in QuantizationConfigs,
        ok \in BOOLEAN :
       LET c == [op |-> "export_model", model_name |-> model_name,
                 quantization_config |-> quantization_config,
                 state |-> "running", err |-> NoError, value |-> None,
                 tflite_model |-> None, writer |-> None,
                 tflite_model_with_metadata |-> None, metadata_json |-> None]
           fine == ok /\ makedirs_ok(disk, result._hparams.export_dir)
       IN /\ oplog' = << Entry("makedirs", result._hparams.export_dir, fine) >>
          /\ disk' = IF fine THEN makedirs(disk, result._hparams.export_dir) ELSE disk
          /\ written' = IF fine THEN {result._hparams.export_dir} ELSE {}
          /\ fs' = fs \cup written'
          /\ IF fine
             THEN pc' = "export_model:save_model" /\ call' = c
             ELSE /\ pc' = "returned"
                  /\ call' = [c EXCEPT !.state = "raised", !.err = CollaboratorError("makedirs")]
  /\ UNCHANGED <<train_data, validation_data, given, options, clf, result, err, log>>

\* line 212
export_save_model ==
  /\ pc = "export_model:save_model"
  /\ \E fails \in {"", "makedirs", "_model.save"} :
       LET r == save_model_body(result, disk, <<"saved_model">>, fails)
       IN /\ disk' = r.disk
          /\ written' = written \cup r.written
          /\ oplog' = oplog \o r.oplog
          /\ fs' = fs \cup r.written
          /\ Propagate(r.ok, r.fn, "export_model:convert", call)
  /\ UNCHANGED <<train_data, validation_data, given, options, clf, result, err, log>>

\* model_util.convert_to_tflite_from_file(saved_model_file, quantization_config)
convert_to_tflite_from_file(saved, quantization_config) ==
  [kind |-> "tflite", model |-> saved.model, quantization_config |-> quantization_config,
   metadata |-> None]

\* lines 215-217
export_convert ==
  /\ pc = "export_model:convert"
  /\ \E ok \in BOOLEAN :
       /\ oplog' = Append(oplog, Entry("convert_to_tflite_from_file",
                                       [saved_model_file |-> saved_model_file,
                                        quantization_config |-> call.quantization_config], ok))
       /\ Propagate(ok, "convert_to_tflite_from_file", "export_model:save_vocab",
                    [call EXCEPT !.tflite_model =
                       convert_to_tflite_from_file(disk[saved_model_file],
                                                   call.quantization_config)])
  /\ UNCHANGED <<train_data, validation_data, given, options, clf, result, err, log, fs,
                 written, disk>>

\* variant: the reserved tokens are left out of the file
_save_vocab_without_reserved(self) ==
  IF self.cls = "_BertClassifier"
  THEN [kind |-> "vocab", lines |-> self._text_preprocessor.vocab_file]
  ELSE [kind |-> "vocab",
        lines |-> [i \in 1..(Len(self._text_preprocessor.vocab) - 3) |->
                     <<self._text_preprocessor.vocab[i + 3], i + 2>>]]

\* _save_vocab of the two families: the content of the vocabulary file.
\* _BertClassifier copies the preprocessor's vocabulary file;
\* _AverageWordEmbeddingClassifier writes one "token index" line per entry
_save_vocab(self) ==
  IF self.cls = "_BertClassifier"
  THEN [kind |-> "vocab", lines |-> self._text_preprocessor.vocab_file]
  ELSE [kind |-> "vocab",
        lines |-> [i \in 1..Len(self._text_preprocessor.vocab) |->
                     <<self._text_preprocessor.vocab[i], i - 1>>]]

\* lines 218-219
export_save_vocab ==
  /\ pc = "export_model:save_vocab"
  /\ \E ok \in BOOLEAN :
       /\ oplog' = Append(oplog, Entry("_save_vocab", VocabFilepath, ok))
       /\ disk' = IF ok THEN Put(disk, VocabFilepath, _save_vocab(result)) ELSE disk
       /\ written' = IF ok THEN written \cup {VocabFilepath} ELSE written
       /\ fs' = fs \cup written'
       /\ Propagate(ok, "_save_vocab", "export_model:populate", call)
  /\ UNCHANGED <<train_data, validation_data, given, options, clf, result, err, log>>

\* variant: the labels are taken in sorted-set order (here: reversed)
_get_metadata_writer_reordered(self, tflite_model, vocab_filepath) ==
  [type |-> IF self.cls = "_BertClassifier" THEN "create_for_bert_model"
                                            ELSE "create_for_regex_model",
   model_buffer |-> tflite_model,
   vocab_file_path |-> vocab_filepath,
   labels |-> [i \in 1..Len(self._label_names) |->
                 self._label_names[Len(self._label_names) + 1 - i]]]

\* _get_metadata_writer of the two families
_get_metadata_writer(self, tflite_model, vocab_filepath) ==
  [type |-> IF self.cls = "_BertClassifier" THEN "create_for_bert_model"
                                            ELSE "create_for_regex_model",
   model_buffer |-> tflite_model,
   vocab_file_path |-> vocab_filepath,
   labels |-> self._label_names]

\* writer.populate(): the model with the metadata embedded, and its JSON
\* description; the writer reads the vocabulary file it was given
populate(writer, d) ==
  [tflite_model_with_metadata |->
     [writer.model_buffer EXCEPT
        !.metadata = [labels |-> writer.labels, vocab |-> d[writer.vocab_file_path].lines]],
   metadata_json |->
     [kind |-> "json", tokenizer |-> writer.type, labels |-> writer.labels,
      vocab_size |-> Len(d[writer.vocab_file_path].lines)]]

\* lines 221-222
export_populate ==
  /\ pc = "export_model:populate"
  /\ \E ok \in BOOLEAN :
       LET writer == _get_metadata_writer(result, call.tflite_model, VocabFilepath)
       IN /\ oplog' = Append(oplog, Entry("writer.populate", writer, ok))
          /\ Propagate(ok, "writer.populate", "export_model:save_tflite",
                       [call EXCEPT
                          !.writer = writer,
                          !.tflite_model_with_metadata =
                             populate(writer, disk).tflite_model_with_metadata,
                          !.metadata_json = populate(writer, disk).metadata_json])
  /\ UNCHANGED <<train_data, validation_data, given, options, clf, result, err, log, fs,
                 written, disk>>

\* line 223
export_save_tflite ==
  /\ pc = "export_model:save_tflite"
  /\ \E ok \in BOOLEAN, partial \in BOOLEAN :
       LET fine == ok /\ write_ok(disk, tflite_file)
           begun == partial /\ write_ok(disk, tflite_file)
       IN /\ partial => ~ok
          /\ oplog' = Append(oplog, Entry("save_tflite", tflite_file, fine))
          /\ disk' = IF fine THEN Put(disk, tflite_file, call.tflite_model_with_metadata)
                     ELSE IF begun THEN Put(disk, tflite_file, PartialFile)
                     ELSE disk
          /\ written' = IF fine \/ begun THEN written \cup {tflite_file} ELSE written
          /\ fs' = fs \cup written'
          /\ Propagate(fine, "save_tflite", "export_model:write_metadata", call)
  /\ UNCHANGED <<train_data, validation_data, given, options, clf, result, err, log>>

\* lines 224-225, and the method returns
export_write_metadata ==
  /\ pc = "export_model:write_metadata"
  /\ \E ok \in BOOLEAN, partial \in BOOLEAN :
       LET fine == ok /\ write_ok(disk, metadata_file)
           begun == partial /\ write_ok(disk, metadata_file)
       IN /\ partial => ~ok
          /\ oplog' = Append(oplog, Entry("GFile.write", metadata_file, fine))
          /\ disk' = IF fine THEN Put(disk, metadata_file, call.metadata_json)
                     ELSE IF begun THEN Put(disk, metadata_file, PartialFile)
                     ELSE disk
          /\ written' = IF fine \/ begun THEN written \cup {metadata_file} ELSE written
          /\ fs' = fs \cup written'
          /\ Propagate(fine, "GFile.write", "returned", [call EXCEPT !.state = "returned"])
  /\ UNCHANGED <<train_data, validation_data, given, options, clf, result, err, log>>

-----------------------------------------------------------------------------
(* _BertClassifier.export_model_with_tokenizer *)

\* variant: the preprocessor's own tokenizer is embedded whatever it is
export_tokenizer_always_own(self) ==
  [warning |-> FALSE, tokenizer |-> self._text_preprocessor.tokenizer]

\* lines 648-664: the tokenizer put in the exported graph, and whether the
\* warning is printed
export_tokenizer(self) ==
  IF self._hparams.tokenizer # "FAST_BERT_TOKENIZER"
  THEN [warning |-> TRUE,
        tokenizer |-> [type |-> "FAST_BERT_TOKENIZER", owner |-> "export_model_with_tokenizer",
                       vocab_file |-> self._text_preprocessor.vocab_file]]
  ELSE [warning |-> FALSE, tokenizer |-> self._text_preprocessor.tokenizer]

saved_model_with_tokenizer_file ==
  os_path_join(result._hparams.export_dir, <<"saved_model_with_tokenizer">>)

\* lines 646-667: the export directory, the tokenizer, the wrapped model
export_model_with_tokenizer ==
  /\ pc = "returned"
  /\ result.cls = "_BertClassifier"
  /\ \E quantization_config \in QuantizationConfigs, ok \in BOOLEAN :
       LET c == [op |-> "export_model_with_tokenizer",
                 model_name |-> <<"model_with_tokenizer.tflite">>,
                 quantization_config |-> quantization_config,
                 state |-> "running", err |-> NoError, value |-> None,
                 model |-> None]
           fine == ok /\ makedirs_ok(disk, result._hparams.export_dir)
           t == export_tokenizer(result)
           model == [type |-> "ModelWithTokenizer", tokenizer |-> t.tokenizer,
                     model |-> result._model]
       IN /\ oplog' =
               IF ~fine THEN << Entry("makedirs", result._hparams.export_dir, FALSE) >>
               ELSE << Entry("makedirs", result._hparams.export_dir, TRUE) >>
                    \o (IF t.warning
                        THEN << Entry("print", "WARNING: trained with another tokenizer", TRUE) >>
                        ELSE <<>>)
                    \o << Entry("ModelWithTokenizer", model, TRUE) >>
          /\ disk' = IF fine THEN makedirs(disk, result._hparams.export_dir) ELSE disk
          /\ written' = IF fine THEN {result._hparams.export_dir} ELSE {}
          /\ fs' = fs \cup written'
          /\ IF fine
             THEN pc' = "export_model_with_tokenizer:save" /\ call' = [c EXCEPT !.model = model]
             ELSE /\ pc' = "returned"
                  /\ call' = [c EXCEPT !.state = "raised", !.err = CollaboratorError("makedirs")]
  /\ UNCHANGED <<train_data, validation_data, given, options, clf, result, err, log>>

\* lines 668-677: save the wrapped model, convert it, write the artifact
export_model_with_tokenizer_save ==
  /\ pc = "export_model_with_tokenizer:save"
  /\ \E fails \in {"", "model.save", "convert_to_tflite_from_file", "save_tflite"} :
       LET file == os_path_join(result._hparams.export_dir, call.model_name)
           saved == [kind |-> "SavedModel", model |-> call.model, include_optimizer |-> TRUE]
           tflite_model == [kind |-> "tflite", model |-> call.model,
                            quantization_config |-> call.quantization_config,
                            metadata |-> None]
           save_fails == fails = "model.save" \/ ~model_save_ok(disk, saved_model_with_tokenizer_file)
           write_fails == fails = "save_tflite" \/ ~write_ok(disk, file)
           d1 == Put(disk, saved_model_with_tokenizer_file, saved)
       IN IF save_fails
          THEN /\ oplog' = Append(oplog, Entry("model.save", saved_model_with_tokenizer_file, FALSE))
               /\ UNCHANGED <<disk, written, fs>>
               /\ Propagate(FALSE, "model.save", "returned", call)
          ELSE IF fails = "convert_to_tflite_from_file"
          THEN /\ oplog' = oplog \o << Entry("model.save", saved_model_with_tokenizer_file, TRUE),
                                       Entry("convert_to_tflite_from_file",
                                             saved_model_with_tokenizer_file, FALSE) >>
               /\ disk' = d1
               /\ written' = written \cup {saved_model_with_tokenizer_file}
               /\ fs' = fs \cup written'
               /\ Propagate(FALSE, "convert_to_tflite_from_file", "returned", call)
          ELSE /\ oplog' = oplog \o << Entry("model.save", saved_model_with_tokenizer_file, TRUE),
                                       Entry("convert_to_tflite_from_file",
                                             saved_model_with_tokenizer_file, TRUE),
                                       Entry("save_tflite", file, ~write_fails) >>
               /\ disk' = IF write_fails THEN d1 ELSE Put(d1, file, tflite_model)
               /\ written' = written \cup {saved_model_with_tokenizer_file}
                                     \cup (IF write_fails THEN {} ELSE {file})
               /\ fs' = fs \cup written'
               /\ Propagate(~write_fails, "save_tflite", "returned",
                            [call EXCEPT !.state = "returned"])
  /\ UNCHANGED <<train_data, validation_data, given, options, clf, result, err, log>>

-----------------------------------------------------------------------------

Init ==
  /\ pc = "create"
  /\ train_data \in {Dataset(s, TrainTexts) : s \in LabelSeqs}
  /\ validation_data \in {Dataset(s, ValidationTexts) : s \in LabelSeqs}
  /\ given \in TextClassifierOptions
  /\ options = given
  /\ clf = NoClassifier
  /\ result = NoClassifier
  /\ err = NoError
  /\ log = <<>>
  /\ fs = {}
  /\ call = NoCall
  /\ oplog = <<>>
  /\ written = {}
  /\ disk = EmptyDisk

Next ==
  \/ create_check_label_names
  \/ create_validate
  \/ create_fill_defaults
  \/ create_dispatch
  \/ create_bert_classifier
  \/ bert_load_and_run_preprocessor
  \/ bert_create_model
  \/ bert_create_optimizer
  \/ bert_train_model
  \/ create_average_word_embedding_classifier
  \/ awe_load_and_run_preprocessor
  \/ awe_create_model
  \/ awe_train_model
  \/ create_return

Spec == Init /\ [][Next]_vars

\* the create calls whose classifiers are followed through their method
\* calls: both families, two and three classes, both tokenizers (the default
\* encoder hparams carry FULL_TOKENIZER), and one call that create rejects
OpsCalls ==
  LET two == <<"neg", "pos">>
      three == <<"neg", "pos", "neu">>
      bert(h) == [supported_model |-> "MOBILEBERT_CLASSIFIER", model_options |-> None,
                  hparams |-> h]
      with_target == BertHParams("caller", "LAMB", [type |-> "list", items |-> <<90>>], None,
                                 "FULL_TOKENIZER")
  IN {[label_names |-> two,
       options |-> [supported_model |-> "AVERAGE_WORD_EMBEDDING_CLASSIFIER",
                    model_options |-> None, hparams |-> None]],
      [label_names |-> three, options |-> bert(None)],
      [label_names |-> two,
       options |-> bert(BertHParams("caller", "ADAMW", None, None, "FAST_BERT_TOKENIZER"))],
      [label_names |-> three, options |-> bert(with_target)]}

InitOps ==
  /\ \E c \in OpsCalls :
       /\ train_data = Dataset(c.label_names, TrainTexts)
       /\ validation_data = Dataset(c.label_names, ValidationTexts)
       /\ given = c.options
  /\ Init

NextOps ==
  \/ Next
  \/ evaluate
  \/ save_model
  \/ export_model
  \/ export_save_model
  \/ export_convert
  \/ export_save_vocab
  \/ export_populate
  \/ export_save_tflite
  \/ export_write_metadata
  \/ export_model_with_tokenizer
  \/ export_model_with_tokenizer_save

SpecOps == InitOps /\ [][NextOps]_vars

-----------------------------------------------------------------------------
(* A caller that calls create a second time *)

\* a larger training set than TrainTexts
MoreTrainTexts == TrainTexts \o TrainTexts

\* encoder hyperparameters with the schedule fields set by the caller
ScheduleHParams ==
  {[BertHParams("caller", o, None, None, "FULL_TOKENIZER") EXCEPT
      !.steps_per_epoch = s, !.epochs = e, !.batch_size = b] :
     o \in {"ADAMW", "SGD"},
     s \in {None} \cup {SomeInt(n) : n \in 1..MaxStepsPerEpoch},
     e \in 1..MaxEpochs,
     b \in {1, 2}}

\* the options of the first create call
AgainOptions ==
  {[supported_model |-> "AVERAGE_WORD_EMBEDDING_CLASSIFIER", model_options |-> None,
    hparams |-> None]}
  \cup {[supported_model |-> "MOBILEBERT_CLASSIFIER", model_options |-> None, hparams |-> h] :
          h \in {None} \cup ScheduleHParams}

InitAgain ==
  /\ pc = "create"
  /\ train_data = Dataset(<<"neg", "pos">>, TrainTexts)
  /\ validation_data = Dataset(<<"neg", "pos">>, ValidationTexts)
  /\ given \in AgainOptions
  /\ options = given
  /\ clf = NoClassifier
  /\ result = NoClassifier
  /\ err = NoError
  /\ log = <<>>
  /\ fs = {}
  /\ call = NoCall
  /\ oplog = <<>>
  /\ written = {}
  /\ disk = EmptyDisk

\* the caller keeps the classifier create returned and calls create again,
\* on training data of its choice, with the options object of the first call
\* (same_options) or with a new object holding what the first call was given.
\* The first classifier's _hparams is the object options.hparams; a second
\* create on the same options finds steps_per_epoch set and leaves its value
\* as it is (get_steps_per_epoch), so the value kept in call.first stays true
create_again ==
  /\ pc = "returned"
  /\ call = NoCall
  /\ \E same_options \in BOOLEAN, texts \in {TrainTexts, MoreTrainTexts} :
       /\ call' = [op |-> "create", state |-> "again", same_options |-> same_options,
                   first |-> result, first_given |-> given, first_options |-> options]
       /\ train_data' = Dataset(train_data.label_names, texts)
       /\ given' = IF same_options THEN options ELSE given
       /\ options' = IF same_options THEN options ELSE given
  /\ pc' = "create"
  /\ clf' = NoClassifier
  /\ result' = NoClassifier
  /\ log' = <<>>
  /\ UNCHANGED <<validation_data, err, fs, oplog, written, disk>>

NextAgain ==
  \/ Next
  \/ create_again

SpecAgain == InitAgain /\ [][NextAgain]_vars

-----------------------------------------------------------------------------
(* Vocabulary of the properties *)

Range(q) == {q[i] : i \in 1..Len(q)}

LabelMismatchMsg == "Training data label names not equal to validation data label names"
ExpectedEmbeddingMsg == "Expected AVERAGE_WORD_EMBEDDING_CLASSIFIER, got"
ExpectedBertMsg == "Expected a Bert Classifier, got"
UnknownModelMsg == "Unknown model"
BinaryMetricsMsg == "desired_recalls and desired_precisions parameters are binary metrics and not supported for num_classes > 2. Found num_classes:"
BadOptimizerMsg == "BertHParams.optimizer must be set to ADAM or LAMB. Got"

\* the error taxonomy: every error of the file is a ValueError, told apart by
\* the statement that raised it
ErrorKind(e) ==
  CASE e.msg = LabelMismatchMsg -> "LabelMismatch"
    [] e.msg \in {ExpectedEmbeddingMsg, ExpectedBertMsg, BinaryMetricsMsg, BadOptimizerMsg} ->
         "ConfigurationMismatch"
    [] e.msg = UnknownModelMsg -> "UnknownModelFamily"
    [] OTHER -> "None"

LabelsEqual == train_data.label_names = validation_data.label_names

EmbeddingSelected == given.supported_model = "AVERAGE_WORD_EMBEDDING_CLASSIFIER"
EncoderSelected == given.supported_model \in {"MOBILEBERT_CLASSIFIER", "EXBERT_CLASSIFIER"}
UnknownSelected == ~EmbeddingSelected /\ ~EncoderSelected

GivenOptionsType == given.model_options.type

\* an embedding selector with encoder options, or an encoder selector with
\* embedding options
MixedPairing ==
  \/ EmbeddingSelected /\ GivenOptionsType = "BertModelOptions"
  \/ EncoderSelected /\ GivenOptionsType = "AverageWordEmbeddingModelOptions"

MatchingPairing ==
  \/ EmbeddingSelected /\ GivenOptionsType = "AverageWordEmbeddingModelOptions"
  \/ EncoderSelected /\ GivenOptionsType = "BertModelOptions"

\* the option validator has run in this call
Validated == LabelsEqual /\ pc \notin {"create", "validate"}

\* lines 116-120 have run in this call
DefaultsFilled ==
  /\ pc \notin {"create", "validate", "fill_defaults"}
  /\ err.msg \notin {LabelMismatchMsg, ExpectedEmbeddingMsg, ExpectedBertMsg}

NoWorkDone ==
  /\ clf = NoClassifier
  /\ result = NoClassifier
  /\ log = <<>>
  /\ fs = {}

-----------------------------------------------------------------------------
(* C1 .. C10 *)

\* C1: whenever the label-name sequences of train_data and validation_data
\* differ (by value or by order), create ends in the label-mismatch error
\* whatever the options are, and at that point the options object is
\* unchanged, no classifier, preprocessor or model exists, nothing was
\* trained and nothing was written.
C1_LabelMismatchFailsFirst ==
  (~LabelsEqual /\ pc # "create") =>
     /\ pc = "raised"
     /\ ErrorKind(err) = "LabelMismatch"
     /\ options = given
     /\ NoWorkDone

\* C1 witness: same names in another order, with options that would otherwise
\* be rejected by the validator
C1_Witness ==
  /\ pc = "raised"
  /\ ErrorKind(err) = "LabelMismatch"
  /\ Range(train_data.label_names) = Range(validation_data.label_names)
  /\ train_data.label_names # validation_data.label_names
  /\ MixedPairing

\* C2: a create that returns hands back a classifier whose label names are the
\* label-name sequence shared by train_data and validation_data, element by
\* element, for both families.
C2_ReturnedLabelNames ==
  pc = "returned" =>
     /\ result._label_names = train_data.label_names
     /\ result._label_names = validation_data.label_names
     /\ \A i \in 1..Len(train_data.label_names) :
          result._label_names[i] = train_data.label_names[i]

C2_Witness ==
  /\ pc = "returned"
  /\ result.cls = "_AverageWordEmbeddingClassifier"
  /\ result._label_names = <<"pos", "neg", "neu">>

\* C3: once the validator has run, it has raised its configuration-mismatch
\* error exactly for the mixed pairings, in both directions (embedding
\* selector with encoder options: "Expected a Bert Classifier"; encoder
\* selector with embedding options: "Expected AVERAGE_WORD_EMBEDDING_
\* CLASSIFIER"); matching pairings and unset model options pass it for every
\* selector.
C3_ValidateBothDirections ==
  Validated =>
     /\ (EmbeddingSelected /\ GivenOptionsType = "BertModelOptions") =>
           (pc = "raised" /\ err = ValueError(ExpectedBertMsg, given.supported_model))
     /\ (EncoderSelected /\ GivenOptionsType = "AverageWordEmbeddingModelOptions") =>
           (pc = "raised" /\ err = ValueError(ExpectedEmbeddingMsg, given.supported_model))
     /\ (MatchingPairing \/ given.model_options = None) =>
           err.msg \notin {ExpectedEmbeddingMsg, ExpectedBertMsg}

C3_Witness ==
  /\ pc = "raised"
  /\ EmbeddingSelected
  /\ err = ValueError(ExpectedBertMsg, "AVERAGE_WORD_EMBEDDING_CLASSIFIER")

\* C4: a classifier instance, while it is built and when it is returned,
\* carries model options of the type of its own family, supplied or
\* default-filled; a mixed pairing never gets as far as constructing a
\* classifier, preprocessing or training, and (the label names being equal)
\* it ends in a configuration error.
C4_OptionsMatchFamily ==
  /\ clf # NoClassifier =>
        clf._model_options.type =
          (IF clf.cls = "_BertClassifier" THEN "BertModelOptions"
                                          ELSE "AverageWordEmbeddingModelOptions")
  /\ pc = "returned" => result = clf
  /\ MixedPairing => NoWorkDone /\ pc \in {"create", "validate", "raised"}
  /\ (MixedPairing /\ Validated) =>
        (pc = "raised" /\ ErrorKind(err) = "ConfigurationMismatch")

C4_Witness ==
  /\ pc = "returned"
  /\ given.model_options = None
  /\ result.cls = "_BertClassifier"
  /\ result._model_options = ModelOptions("BertModelOptions", "spec")

\* hparams a is the object b, whatever line 567 has since assigned to its
\* steps_per_epoch
SameHParams(a, b) ==
  IF a.type = "BertHParams" /\ b.type = "BertHParams"
  THEN [a EXCEPT !.steps_per_epoch = None] = [b EXCEPT !.steps_per_epoch = None]
  ELSE a = b

\* C5: after the default-filling lines of create, each of model_options and
\* hparams is the family specification's value exactly when the caller left
\* it unset and is the caller's own object otherwise; before them the options
\* are as given; the classifier is built from these very values.
C5_DefaultsOnlyWhenUnset ==
  /\ ~DefaultsFilled => options = given
  /\ DefaultsFilled =>
        /\ options.supported_model = given.supported_model
        /\ given.model_options = None =>
              (/\ options.model_options.origin = "spec"
               /\ options.model_options =
                    SupportedModelValue(given.supported_model).model_options)
        /\ given.model_options # None => options.model_options = given.model_options
        /\ given.hparams = None =>
              (/\ options.hparams.origin = "spec"
               /\ SameHParams(options.hparams,
                              SupportedModelValue(given.supported_model).hparams))
        /\ given.hparams # None => SameHParams(options.hparams, given.hparams)
  /\ clf # NoClassifier =>
        (clf._model_options = options.model_options /\ clf._hparams = options.hparams)

C5_Witness ==
  /\ pc = "returned"
  /\ given.model_options = None
  /\ given.hparams # None
  /\ SameHParams(result._hparams, given.hparams)
  /\ result._hparams.origin = "caller"
  /\ result._model_options.origin = "spec"

\* C6 as stated: with a selector that is neither family (and the label names
\* equal), create ends in the unknown-model-family error.
C6_UnknownSelectorAlwaysUnknownModel ==
  (UnknownSelected /\ LabelsEqual /\ pc = "raised") =>
     ErrorKind(err) = "UnknownModelFamily"

\* C6 amended: with a selector that is neither family, create never
\* constructs a classifier, preprocesses, trains or returns; with equal label
\* names it ends in the unknown-model-family error (naming the selector) when
\* model_options is unset, and in the validator's configuration-mismatch
\* error when model_options of either family are supplied.
C6_UnknownSelectorFailsEagerly ==
  UnknownSelected =>
     /\ NoWorkDone
     /\ pc \in {"create", "validate", "fill_defaults", "dispatch", "raised"}
     /\ (pc = "raised" /\ LabelsEqual /\ given.model_options = None) =>
           err = ValueError(UnknownModelMsg, given.supported_model)
     /\ (pc = "raised" /\ LabelsEqual /\ given.model_options # None) =>
           (/\ ErrorKind(err) = "ConfigurationMismatch"
            /\ err.msg \in {ExpectedEmbeddingMsg, ExpectedBertMsg})

C6_Witness ==
  /\ pc = "raised"
  /\ UnknownSelected
  /\ ErrorKind(err) = "UnknownModelFamily"
  /\ options.model_options.origin = "spec"

\* the caller's hyperparameters select an optimizer that is neither ADAMW nor LAMB
BadOptimizerGiven ==
  /\ EncoderSelected
  /\ given.hparams # None
  /\ given.hparams.optimizer \notin BertOptimizer

\* C7: in the encoder family, with an optimizer selector that is neither
\* ADAMW nor LAMB, training is never started and no classifier is returned;
\* when construction gets as far as the optimizer it fails there with the
\* configuration error whose message carries the invalid selector.
C7_BadOptimizerNeverTrains ==
  BadOptimizerGiven =>
     /\ "_train_model" \notin Range(log)
     /\ pc \notin {"bert_train_model", "return", "returned"}
     /\ result = NoClassifier
     /\ fs = {}
     /\ ("_create_optimizer" \in Range(log)) =>
           /\ pc = "raised"
           /\ err = ValueError(BadOptimizerMsg, given.hparams.optimizer)
           /\ ErrorKind(err) = "ConfigurationMismatch"

C7_Witness ==
  /\ pc = "raised"
  /\ err = ValueError(BadOptimizerMsg, "SGD")
  /\ log = <<"_BertClassifier.__init__", "BertClassifierPreprocessor",
             "preprocess(train_data)", "preprocess(validation_data)",
             "_create_model", "_create_optimizer">>

\* precision or recall targets are configured while the class count is not two
BinaryTargetsMisconfigured ==
  /\ EncoderSelected
  /\ given.hparams # None
  /\ Truthy(given.hparams.desired_precisions) \/ Truthy(given.hparams.desired_recalls)
  /\ Len(train_data.label_names) # 2

\* C8 as stated: when the binary-metric class-count error is raised, the
\* preprocessor has been loaded and run on both splits, and training has not
\* started.
C8_BinaryCheckAfterPreprocessing ==
  (pc = "raised" /\ err.msg = BinaryMetricsMsg) =>
     /\ "BertClassifierPreprocessor" \in Range(log)
     /\ "preprocess(train_data)" \in Range(log)
     /\ "preprocess(validation_data)" \in Range(log)
     /\ "_train_model" \notin Range(log)

\* C8 amended: the binary-metric class-count check is raised while the
\* classifier instance is constructed (_BertClassifier.__init__), before the
\* preprocessor is loaded or run, before the model is built and before
\* training starts; a misconfigured encoder-family create never reaches
\* preprocessing.
C8_BinaryCheckAtConstruction ==
  /\ (pc = "raised" /\ err.msg = BinaryMetricsMsg) =>
        /\ log = <<"_BertClassifier.__init__">>
        /\ clf = NoClassifier
        /\ result = NoClassifier
        /\ fs = {}
  /\ BinaryTargetsMisconfigured =>
        /\ Range(log) \subseteq {"_BertClassifier.__init__"}
        /\ clf = NoClassifier
        /\ ("_BertClassifier.__init__" \in Range(log)) =>
              (pc = "raised" /\ err.msg = BinaryMetricsMsg)

C8_Witness ==
  /\ pc = "raised"
  /\ err = ValueError(BinaryMetricsMsg, "1")
  /\ log = <<"_BertClassifier.__init__">>
  /\ LabelsEqual

\* the encoder-family constructor (and with it _create_metrics) has run
MetricsConstructed == "_BertClassifier.__init__" \in Range(log)

\* C9: once metric construction has run for the encoder family: with a
\* non-empty desired_precisions or desired_recalls and more than two classes
\* it failed with the binary-metrics error and left no metric list (no
\* instance); with both lists empty or unset it succeeded for every class
\* count, giving the three default metrics.
C9_BinaryMetricsNeedTwoClasses ==
  MetricsConstructed =>
     /\ (/\ Len(train_data.label_names) > 2
         /\ Truthy(options.hparams.desired_precisions)
              \/ Truthy(options.hparams.desired_recalls)) =>
           /\ pc = "raised"
           /\ err = ValueError(BinaryMetricsMsg, ToString(Len(train_data.label_names)))
           /\ ErrorKind(err) = "ConfigurationMismatch"
           /\ clf = NoClassifier
     /\ (/\ ~Truthy(options.hparams.desired_precisions)
         /\ ~Truthy(options.hparams.desired_recalls)) =>
           /\ err.msg # BinaryMetricsMsg
           /\ clf # NoClassifier
           /\ Len(clf._metric_functions) = 3

C9_Witness ==
  /\ pc = "raised"
  /\ err = ValueError(BinaryMetricsMsg, "3")
  /\ Len(train_data.label_names) = 3
  /\ options.hparams.desired_precisions = None
  /\ options.hparams.desired_recalls = [type |-> "list", items |-> <<90>>]

\* C10: the encoder-family metric list begins with accuracy, precision and
\* recall; for exactly two classes it then holds one recall-at-precision
\* metric per desired precision and one precision-at-recall metric per
\* desired recall, in order, 3 + |precisions| + |recalls| in all, each over
\* 1000 thresholds.
C10_MetricList ==
  (clf # NoClassifier /\ clf.cls = "_BertClassifier") =>
     LET m == clf._metric_functions
         p == Items(clf._hparams.desired_precisions)
         r == Items(clf._hparams.desired_recalls)
     IN /\ Len(m) >= 3
        /\ m[1].name = "accuracy" /\ m[2].name = "precision" /\ m[3].name = "recall"
        /\ clf._num_classes # 2 => Len(m) = 3
        /\ clf._num_classes = 2 =>
              /\ Len(m) = 3 + Len(p) + Len(r)
              /\ \A i \in 1..Len(p) :
                    m[3 + i] = ThresholdMetric("BinarySparseRecallAtPrecision", p[i],
                                               "recall_at_precision_", 1000)
              /\ \A j \in 1..Len(r) :
                    m[3 + Len(p) + j] = ThresholdMetric("BinarySparsePrecisionAtRecall", r[j],
                                                        "precision_at_recall_", 1000)

-----------------------------------------------------------------------------
(* C11 .. C20 *)

TypeMismatchMsg == "Need a TextClassifier Dataset."

\* the last call was an evaluate whose data argument is not a
\* text-classifier dataset
EvaluatedOtherDataset == call.op = "evaluate" /\ call.data.type # "text_ds.Dataset"

\* C11: an evaluate whose data argument is not the text-classifier dataset
\* type raises the type-mismatch error; on that path the preprocessor is not
\* run, no dataset is generated, the model is not evaluated, nothing is
\* written, and the classifier is the instance create built, unchanged.
C11_EvaluateRejectsOtherDatasets ==
  EvaluatedOtherDataset =>
     /\ call.state = "raised"
     /\ call.err = ValueError(TypeMismatchMsg, "")
     /\ call.value = None
     /\ oplog = <<>>
     /\ written = {}
     /\ result = clf

C11_Witness ==
  /\ EvaluatedOtherDataset
  /\ call.state = "raised"
  /\ call.desired_precisions # None
  /\ result.cls = "_AverageWordEmbeddingClassifier"

\* the classifier is at rest or inside one of its method calls
Created == result # NoClassifier

\* a step of evaluate, save_model or export_model: the call in progress, or
\* just finished, after the step is one of the three
ReadOnlyStep == call'.op \in {"evaluate", "save_model", "export_model"}

\* C12: on a classifier returned by create, every step of evaluate,
\* save_model and export_model leaves the classifier (its model, its
\* preprocessor with the vocabulary, its label names, its model options and
\* hyperparameters) and the options object as they were; and an evaluate
\* that gets past its type check preprocesses its data with the preprocessor
\* the classifier holds since create.
C12_CallsAreReadOnly ==
  /\ [][ReadOnlyStep => (Created /\ result' = result /\ clf' = clf /\ options' = options)]_vars
  /\ [](Created => result = clf)
  /\ []((call.op = "evaluate" /\ call.state = "returned") =>
          /\ Len(oplog) = 3
          /\ oplog[1].fn = "preprocess"
          /\ oplog[1].arg = clf._text_preprocessor
          /\ oplog[3].fn = "_model.evaluate"
          /\ oplog[3].arg = clf._model)

C12_Witness ==
  /\ call.op = "evaluate"
  /\ call.state = "returned"
  /\ oplog[1].arg = result._text_preprocessor
  /\ result.cls = "_AverageWordEmbeddingClassifier"
  /\ <<"export_dir", "model.tflite">> \in DOMAIN disk
  /\ <<"/", "tmp", "model">> \in DOMAIN disk

\* the last call was an evaluate with a precision or recall target on a
\* classifier that does not have exactly two classes
EvaluatedWithTargets ==
  /\ call.op = "evaluate"
  /\ Truthy(call.desired_precisions) \/ Truthy(call.desired_recalls)
  /\ result._num_classes # 2

\* C13: an evaluate with desired_precisions or desired_recalls on a
\* classifier without exactly two classes raises no configuration error: it
\* returns the evaluation unless the data has the wrong type, and then the
\* error is the type mismatch.  The binary-metric configuration error is
\* raised by create only: whenever it is the error, no classifier was
\* returned and no method was called.
C13_TargetsNotCheckedByEvaluate ==
  /\ EvaluatedWithTargets =>
        /\ ErrorKind(call.err) # "ConfigurationMismatch"
        /\ call.err.msg # BinaryMetricsMsg
        /\ call.state = "raised" <=> call.data.type # "text_ds.Dataset"
        /\ call.state = "returned" <=> call.data.type = "text_ds.Dataset"
  /\ BinaryTargetsMisconfigured =>
        /\ result = NoClassifier
        /\ call = NoCall
        /\ pc = "raised" => err.msg = BinaryMetricsMsg

C13_Witness ==
  /\ EvaluatedWithTargets
  /\ call.state = "returned"
  /\ call.data.type = "text_ds.Dataset"
  /\ Truthy(call.desired_recalls)
  /\ result._num_classes = 3

\* the last call was a save_model that returned
SaveModelReturned == call.op = "save_model" /\ call.state = "returned"

\* path is the export directory or lies below it
InExportRoot(path) ==
  path = result._hparams.export_dir \/ IsUnder(path, result._hparams.export_dir)

\* C14 as stated: a save_model(name) that returns has made the export
\* directory, has saved the model without the optimizer at export_dir/name,
\* and has written nothing outside the export directory.
C14_SaveModelStaysUnderExportRoot ==
  SaveModelReturned =>
     /\ IsDirectory(disk, result._hparams.export_dir)
     /\ Exists(disk, result._hparams.export_dir \o call.model_name)
     /\ disk[result._hparams.export_dir \o call.model_name] = SavedModel(result)
     /\ \A path \in written : InExportRoot(path)

\* C14 amended: a save_model(name) that returns has created the export
\* directory when it was absent, and has saved the model of the classifier
\* with include_optimizer false at os.path.join(export_dir, name): at
\* export_dir/name for a relative name, and at name itself, outside the
\* export directory, for an absolute name.  It writes the export directory
\* and that path and nothing else.
C14_SaveModelAtJoinedPath ==
  /\ [](SaveModelReturned =>
          LET export_dir == result._hparams.export_dir
              name == call.model_name
              target == IF name[1] = "/" THEN name ELSE export_dir \o name
          IN /\ IsDirectory(disk, export_dir)
             /\ Exists(disk, target)
             /\ disk[target] = [kind |-> "SavedModel", model |-> result._model,
                                include_optimizer |-> FALSE]
             /\ written = {export_dir, target}
             /\ name[1] # "/" => \A path \in written : InExportRoot(path)
             /\ oplog = << Entry("makedirs", export_dir, TRUE),
                           Entry("_model.save", target, TRUE) >>)
  /\ [][(call'.op = "save_model" /\ call'.state = "returned" /\ ~Exists(disk, ExportDir))
          => (disk'[ExportDir] = [kind |-> "dir"])]_vars

C14_Witness ==
  /\ SaveModelReturned
  /\ call.model_name = <<"/", "tmp", "model">>
  /\ DOMAIN disk = {ExportDir, <<"/", "tmp", "model">>}
  /\ disk[<<"/", "tmp", "model">>] = SavedModel(result)

\* the collaborator calls of export_model in the order of lines 208-225:
\* step 1 is save_model (its own makedirs and the save), step 2 the
\* conversion, step 3 the vocabulary file, step 4 the metadata writer, step 5
\* the two writes
ExportSteps ==
  << "makedirs", "makedirs", "_model.save", "convert_to_tflite_from_file", "_save_vocab",
     "writer.populate", "save_tflite", "GFile.write" >>

InExport == call.op = "export_model"

ExportFailed == InExport /\ call.state = "raised"

ExportReturned == InExport /\ call.state = "returned"

\* the steps of this call, in the order they ran
StepsRun == [i \in 1..Len(oplog) |-> oplog[i].fn]

\* step number i of ExportSteps ran in this call and succeeded
StepSucceeded(i) == Len(oplog) >= i /\ oplog[i].ok

\* C15: at every point of an export_model call the steps that have run are an
\* initial part of: save the trainable graph, convert it with the supplied
\* quantization config, write the vocabulary file, run the metadata writer,
\* write the artifact, write metadata.json.  Only the last step run can have
\* failed, and then the call has raised and runs nothing more; a call that
\* returns has run all of them.  The artifact file and metadata.json are
\* written, or begun, only when steps 1 to 4 all succeeded, and
\* metadata.json only after the artifact.
C15_ExportStepsInOrder ==
  InExport =>
     /\ Len(oplog) \in 1..Len(ExportSteps)
     /\ StepsRun = SubSeq(ExportSteps, 1, Len(oplog))
     /\ \A i \in 1..(Len(oplog) - 1) : oplog[i].ok
     /\ ~oplog[Len(oplog)].ok <=> call.state = "raised"
     /\ call.state = "raised" => pc = "returned"
     /\ call.state = "returned" => Len(oplog) = Len(ExportSteps)
     /\ Len(oplog) >= 4 =>
           oplog[4].arg = [saved_model_file |-> saved_model_file,
                           quantization_config |-> call.quantization_config]
     /\ Len(oplog) >= 5 => call.tflite_model.quantization_config = call.quantization_config
     /\ ((tflite_file \in written /\ tflite_file # saved_model_file)
           \/ metadata_file \in written) => \A i \in 1..7 : i = 7 \/ StepSucceeded(i)
     /\ (metadata_file \in written /\ tflite_file # metadata_file) => StepSucceeded(7)

C15_Witness ==
  /\ ExportFailed
  /\ StepsRun = SubSeq(ExportSteps, 1, 5)
  /\ call.quantization_config # None
  /\ call.tflite_model.quantization_config = call.quantization_config
  /\ tflite_file \notin written
  /\ metadata_file \notin written

\* C16 as stated: when export_model has failed the error is the failing
\* collaborator's own, the failed step was not run again, what was written
\* is still on disk, and the call has written neither the artifact file nor
\* metadata.json.
C16_FailedExportLeavesNoArtifact ==
  ExportFailed =>
     /\ call.err = CollaboratorError(oplog[Len(oplog)].fn)
     /\ StepsRun = SubSeq(ExportSteps, 1, Len(oplog))
     /\ written \subseteq DOMAIN disk
     /\ written \subseteq {result._hparams.export_dir, saved_model_file, VocabFilepath}

\* C16 amended: when export_model has failed, the error the caller gets is
\* the failing collaborator's own, no step was run twice, and everything the
\* call wrote before the failure is still on disk.  A failure in steps 1 to 4
\* leaves only the export directory, the saved graph and the vocabulary file
\* written; a failure while writing the artifact can leave a part of it; a
\* failure while writing metadata.json leaves the artifact file written in
\* full, and possibly a part of metadata.json.
C16_FailedExportKeepsWhatWasWritten ==
  ExportFailed =>
     LET failed == oplog[Len(oplog)].fn
     IN /\ call.err = [type |-> "CollaboratorError", msg |-> failed, arg |-> ""]
        /\ StepsRun = SubSeq(ExportSteps, 1, Len(oplog))
        /\ written \subseteq DOMAIN disk
        /\ failed \notin {"save_tflite", "GFile.write"} =>
              written \subseteq {result._hparams.export_dir, saved_model_file, VocabFilepath}
        /\ failed = "save_tflite" =>
              /\ metadata_file \in written => metadata_file = tflite_file
              /\ tflite_file \in written =>
                    \/ disk[tflite_file] = PartialFile
                    \/ tflite_file = saved_model_file
        /\ failed = "GFile.write" =>
              /\ tflite_file \in written
              /\ IF tflite_file = metadata_file
                 THEN disk[tflite_file] \in {call.tflite_model_with_metadata, PartialFile}
                 ELSE /\ disk[tflite_file] = call.tflite_model_with_metadata
                      /\ metadata_file \in written => disk[metadata_file] = PartialFile

C16_Witness ==
  /\ ExportFailed
  /\ oplog[Len(oplog)].fn = "GFile.write"
  /\ call.model_name = <<"model.tflite">>
  /\ tflite_file \in DOMAIN disk
  /\ disk[tflite_file] = call.tflite_model_with_metadata
  /\ metadata_file \notin written

\* C17: after an export_model(model_name) that returns, the export directory
\* holds the saved trainable graph, the artifact with its metadata at
\* export_dir/model_name, and the JSON description at export_dir/metadata.json,
\* each as this call wrote it.
C17_ExportLeavesThreeOutputs ==
  ExportReturned =>
     /\ {saved_model_file, tflite_file, metadata_file} \subseteq DOMAIN disk
     /\ tflite_file = result._hparams.export_dir \o call.model_name
     /\ disk[saved_model_file] = SavedModel(result)
     /\ disk[tflite_file] = call.tflite_model_with_metadata
     /\ disk[tflite_file].kind = "tflite"
     /\ disk[metadata_file] = call.metadata_json
     /\ disk[metadata_file].kind = "json"

\* the metadata writer of this export_model call has been built and run
WriterRun == InExport /\ Len(oplog) >= 6

\* the vocabulary of the preprocessor fitted in create: the fitted token list
\* of the embedding family, the vocabulary file of the encoder family
PreprocessorVocabulary ==
  IF result.cls = "_BertClassifier"
  THEN result._text_preprocessor.vocab_file
  ELSE result._text_preprocessor.vocab

\* the tokens of a vocabulary file, in the order of its lines
FileTokens(file) ==
  IF result.cls = "_BertClassifier"
  THEN file.lines
  ELSE [i \in 1..Len(file.lines) |-> file.lines[i][1]]

\* C18: for both families the metadata writer of export_model is given the
\* classifier's label names, which are the label names of the training data,
\* in the same order, and a vocabulary file holding the tokens of the
\* preprocessor's vocabulary, in order and (embedding family) with their
\* indices; the model with metadata that populate returns, and the artifact
\* written at export_dir/model_name by a call that returns, carry that label
\* list and a vocabulary of the same size.
C18_WriterGetsLabelsAndVocabulary ==
  WriterRun =>
     LET writer == oplog[6].arg
         file == disk[VocabFilepath]
     IN /\ writer.labels = result._label_names
        /\ writer.labels = train_data.label_names
        /\ writer.vocab_file_path = VocabFilepath
        /\ writer.model_buffer = call.tflite_model
        /\ FileTokens(file) = PreprocessorVocabulary
        /\ result.cls = "_AverageWordEmbeddingClassifier" =>
              \A i \in 1..Len(file.lines) : file.lines[i][2] = i - 1
        /\ oplog[6].ok =>
              /\ call.tflite_model_with_metadata.metadata.labels = train_data.label_names
              /\ Len(call.tflite_model_with_metadata.metadata.vocab)
                   = Len(PreprocessorVocabulary)
              /\ call.metadata_json.labels = train_data.label_names
              /\ call.metadata_json.vocab_size = Len(PreprocessorVocabulary)
        /\ (call.state = "returned" /\ tflite_file # metadata_file) =>
              /\ disk[tflite_file].metadata.labels = train_data.label_names
              /\ Len(disk[tflite_file].metadata.vocab) = Len(PreprocessorVocabulary)

C18_Witness ==
  /\ WriterRun
  /\ call.state = "returned"
  /\ result.cls = "_AverageWordEmbeddingClassifier"
  /\ call.model_name = <<"model.tflite">>
  /\ disk[tflite_file].metadata.labels = <<"neg", "pos">>
  /\ Len(disk[tflite_file].metadata.vocab) = 6

InExportWithTokenizer == call.op = "export_model_with_tokenizer"

\* the export directory of this call exists: the method is past line 646
PastMakedirs == InExportWithTokenizer /\ oplog[1].ok

TrainedWithFastTokenizer == result._hparams.tokenizer = "FAST_BERT_TOKENIZER"

WarningPrinted == \E i \in 1..Len(oplog) : oplog[i].fn = "print"

\* the tokenizer handed to ModelWithTokenizer in this call
EmbeddedTokenizer == call.model.tokenizer

\* C19: export_model_with_tokenizer raises no error of its own: whatever
\* tokenizer the classifier was trained with, a call that raises passes on
\* the error of makedirs, model.save, the conversion or save_tflite.  Trained
\* with another tokenizer than the fast one, the call prints the warning,
\* wraps the model with a fast tokenizer built from the preprocessor's
\* vocabulary file and goes on with the export; trained with the fast
\* tokenizer, it wraps the model with the preprocessor's own tokenizer and
\* prints nothing.
C19_TokenizerChoiceNeverFails ==
  InExportWithTokenizer =>
     /\ result.cls = "_BertClassifier"
     /\ call.state = "raised" =>
           /\ call.err.type = "CollaboratorError"
           /\ call.err.msg \in {"makedirs", "model.save", "convert_to_tflite_from_file",
                                "save_tflite"}
     /\ ~PastMakedirs => (call.state = "raised" /\ ~WarningPrinted)
     /\ (PastMakedirs /\ ~TrainedWithFastTokenizer) =>
           /\ WarningPrinted
           /\ oplog[2].fn = "print"
           /\ oplog[3].fn = "ModelWithTokenizer"
           /\ EmbeddedTokenizer.type = "FAST_BERT_TOKENIZER"
           /\ EmbeddedTokenizer # result._text_preprocessor.tokenizer
           /\ EmbeddedTokenizer.vocab_file = result._text_preprocessor.vocab_file
           /\ oplog[3].arg.tokenizer = EmbeddedTokenizer
     /\ (PastMakedirs /\ TrainedWithFastTokenizer) =>
           /\ ~WarningPrinted
           /\ oplog[2].fn = "ModelWithTokenizer"
           /\ EmbeddedTokenizer = result._text_preprocessor.tokenizer
           /\ oplog[2].arg.tokenizer = EmbeddedTokenizer
     /\ call.state = "returned" =>
           /\ disk[saved_model_with_tokenizer_file].model.tokenizer = EmbeddedTokenizer
           /\ disk[os_path_join(result._hparams.export_dir, call.model_name)].model.tokenizer
                = EmbeddedTokenizer

C19_Witness ==
  /\ InExportWithTokenizer
  /\ call.state = "returned"
  /\ result._hparams.tokenizer = "FULL_TOKENIZER"
  /\ WarningPrinted
  /\ EmbeddedTokenizer.type = "FAST_BERT_TOKENIZER"

\* the position of the first entry named fn in the log of create, 0 when
\* there is none
Position(fn) ==
  IF fn \in Range(log) THEN CHOOSE i \in 1..Len(log) : log[i] = fn /\ \A j \in 1..(i - 1) : log[j] # fn
  ELSE 0

Times(fn) == Cardinality({i \in 1..Len(log) : log[i] = fn})

\* fn is in the log, and before every entry named later
Before(fn, later) == Position(fn) > 0 /\ (Position(later) > 0 => Position(fn) < Position(later))

\* C20: in create, for both families, the two splits are preprocessed (train,
\* then validation) before the model is built; the encoder family builds its
\* optimizer after the model; training starts after all of them, each step
\* running once.  A classifier is handed to the caller only by a create that
\* has trained its model, and a create that raised has returned none.
C20_CreateStepsInOrder ==
  /\ \A fn \in Range(log) : Times(fn) = 1
  /\ Position("_create_model") > 0 =>
        /\ Before("preprocess(train_data)", "preprocess(validation_data)")
        /\ Before("preprocess(validation_data)", "_create_model")
        /\ clf._text_preprocessor # None
  /\ Position("_create_optimizer") > 0 =>
        /\ Before("_create_model", "_create_optimizer")
        /\ clf.cls = "_BertClassifier"
  /\ Position("_train_model") > 0 =>
        /\ Position("_train_model") = Len(log)
        /\ Before("_create_model", "_train_model")
        /\ clf.cls = "_BertClassifier" => Before("_create_optimizer", "_train_model")
        /\ clf._model.trained
  /\ Position("_train_model") = 0 => (result = NoClassifier /\ pc # "returned" /\ fs = {})
  /\ result # NoClassifier =>
        /\ pc = "returned"
        /\ result = clf
        /\ result._model.trained
  /\ pc = "raised" => (result = NoClassifier /\ Position("_train_model") = 0)

C20_Witness ==
  /\ pc = "returned"
  /\ result.cls = "_BertClassifier"
  /\ result._model.trained
  /\ log = << "_BertClassifier.__init__", "BertClassifierPreprocessor",
             "preprocess(train_data)", "preprocess(validation_data)", "_create_model",
             "_create_optimizer", "_train_model" >>

-----------------------------------------------------------------------------
(* C21 .. C23 *)

\* the run is in a second create call of the encoder family, past line 572
SecondOptimizerBuilt ==
  /\ call.op = "create"
  /\ clf # NoClassifier
  /\ clf.cls = "_BertClassifier"
  /\ "_create_optimizer" \in Range(log)

\* the hyperparameters the caller configured for the first create
ConfiguredHParams ==
  IF call.first_given.hparams = None
  THEN SupportedModelValue(call.first_given.supported_model).hparams
  ELSE call.first_given.hparams

\* C21: a second create leaves the first classifier as it was, and when the
\* caller configured no steps_per_epoch the second classifier's is the number
\* of whole batches in its own training data, and the decay of its schedule
\* runs over that many steps per epoch, whether the second create is given
\* the options object of the first or another one.
C21_SecondCreateDerivesOwnSteps ==
  SecondOptimizerBuilt =>
     /\ call.first.cls = "_BertClassifier"
     /\ call.first._model.trained
     /\ ConfiguredHParams.steps_per_epoch = None =>
           /\ clf._hparams.steps_per_epoch.value
                = Len(train_data.texts) \div clf._hparams.batch_size
           /\ (clf._optimizer.type = "AdamW" /\ clf._optimizer.lr_schedule.type = "PolynomialDecay") =>
                 clf._optimizer.lr_schedule.decay_steps
                   = (Len(train_data.texts) \div clf._hparams.batch_size) * clf._hparams.epochs

\* the optimizer of an encoder-family classifier has been built
OptimizerBuilt ==
  /\ clf # NoClassifier
  /\ clf.cls = "_BertClassifier"
  /\ "_create_optimizer" \in Range(log)
  /\ pc # "raised"

\* C22: when the encoder-family optimizer has been built, its schedule is
\* made for total_steps = steps_per_epoch * epochs: with total_steps of 10 or
\* more it is the warm-up over floor(total_steps / 10) steps, at least one,
\* wrapped around the linear decay over total_steps; with total_steps below
\* 10 it is the linear decay over total_steps, unwrapped.
C22_WarmupIsATenth ==
  OptimizerBuilt =>
     LET total == clf._hparams.steps_per_epoch.value * clf._hparams.epochs
         schedule == clf._optimizer.lr_schedule
     IN /\ total >= 10 =>
              /\ schedule.type = "WarmUp"
              /\ schedule.warmup_steps >= 1
              /\ 10 * schedule.warmup_steps <= total
              /\ total < 10 * (schedule.warmup_steps + 1)
              /\ schedule.decay_schedule_fn.type = "PolynomialDecay"
              /\ schedule.decay_schedule_fn.decay_steps = total
              /\ schedule.decay_schedule_fn.power = 1
        /\ total < 10 =>
              /\ schedule.type = "PolynomialDecay"
              /\ schedule.decay_steps = total
              /\ schedule.power = 1

C22_Witness ==
  /\ OptimizerBuilt
  /\ clf._hparams.steps_per_epoch = SomeInt(4)
  /\ clf._hparams.epochs = 3
  /\ clf._optimizer.lr_schedule.type = "WarmUp"
  /\ clf._optimizer.lr_schedule.warmup_steps = 1
  /\ clf._optimizer.lr_schedule.decay_schedule_fn.decay_steps = 12

\* the embedding family's preprocessing has run in this create
EmbeddingPreprocessed ==
  /\ clf # NoClassifier
  /\ clf.cls = "_AverageWordEmbeddingClassifier"
  /\ "preprocess(train_data)" \in Range(log)

\* C23: once an embedding-family create has preprocessed its data, one
\* preprocessor has been constructed, before either split was preprocessed;
\* it was fitted on the training texts followed by the validation texts and
\* its vocabulary is the one built from that sequence; both splits have been
\* preprocessed; and it is the preprocessor of the classifier, up to the
\* classifier that create returns.
C23_OnePreprocessorOnBothSplits ==
  /\ EmbeddingPreprocessed =>
        /\ Times("AverageWordEmbeddingClassifierPreprocessor") = 1
        /\ Before("AverageWordEmbeddingClassifierPreprocessor", "preprocess(train_data)")
        /\ Before("preprocess(train_data)", "preprocess(validation_data)")
        /\ Times("preprocess(train_data)") = 1
        /\ Times("preprocess(validation_data)") = 1
        /\ clf._text_preprocessor.texts = train_data.texts \o validation_data.texts
        /\ clf._text_preprocessor.vocab
             = <<"<PAD>", "<START>", "<UNKNOWN>">>
                 \o MostCommon(train_data.texts \o validation_data.texts,
                               Range(train_data.texts) \cup Range(validation_data.texts))
        /\ Range(validation_data.texts) \subseteq Range(clf._text_preprocessor.vocab)
  /\ (result # NoClassifier /\ result.cls = "_AverageWordEmbeddingClassifier") =>
        /\ EmbeddingPreprocessed
        /\ result._text_preprocessor = clf._text_preprocessor

C23_Witness ==
  /\ pc = "returned"
  /\ result.cls = "_AverageWordEmbeddingClassifier"
  /\ result._text_preprocessor.texts = <<"good", "film", "good", "bad", "film">>
  /\ result._text_preprocessor.vocab
       = <<"<PAD>", "<START>", "<UNKNOWN>", "good", "film", "bad">>

====
